---- MODULE Spec2Model ----
(***************************************************************************)
(* Order / line item / payment consistency core of the Order Service.     *)
(*                                                                         *)
(* The store is a relational database.  Request handlers run concurrently, *)
(* each with its own in-memory model instances (loc) and, inside           *)
(* `with transaction.atomic()`, its own uncommitted writes (tx).  Outside   *)
(* a transaction every statement commits on its own (Django autocommit).   *)
(* Readers see committed rows plus their own uncommitted writes; a write   *)
(* to a row another open transaction has written waits for that            *)
(* transaction to end (row lock).                                          *)
(***************************************************************************)
EXTENDS Integers, Sequences, FiniteSets, TLC

\* ---------------------------------------------------------------- bounds
MaxOrders == 2      \* order identifiers available to generate_order_id
MaxItems == 3       \* order item identifiers available to uuid4
InitStock == 2      \* stock of the catalog product when the model starts
MaxHist == 3        \* status history rows kept per order
MaxRequests == 3    \* requests served in a run whose requests overlap
MaxSerialRequests == 3  \* requests served in a run that serves one at a time

Procs == {1, 2}                       \* concurrent request handlers
OrderIds == 1..MaxOrders
ItemIds == 1..MaxItems
PaymentIds == 1..(MaxOrders + 1)
TxnIds == 1..MaxOrders
Products == {1}                       \* rows of PRODUCT_APP_PRODUCT
ProductInputs == {1, 2}               \* 2 is a product the catalog lacks
InitCustomers == {1}                  \* rows of CUSTOMERS_CUSTOMER
CustomerInputs == {1, 2}              \* 2 is a customer the catalog lacks
Quantities == {1, 2}
ItemCounts == {0, 1, 2}               \* items one request may carry
UnitPrices == {3}
ClientTotals == {0, 7}                \* total_amount values a client may send
None == -1                            \* SQL NULL / Python None

STATUS_CHOICES == {"pending", "shipped", "delivered"}
StatusInputs == STATUS_CHOICES \cup {"cancelled"}
PAYMENT_STATUS == {"success", "pending", "failed"}

VARIABLES
    customers,  \* CUSTOMERS_CUSTOMER: the set of customer ids
    stock,      \* PRODUCT_APP_PRODUCT: product id -> STOCK
    orders,     \* ORDER_APP_ORDER: order_id -> row
    items,      \* ORDER_APP_ORDER_ITEM: order_item_id -> row
    payments,   \* ORDER_APP_PAYMENT: payment_id -> row
    hist,       \* ORDER_APP_ORDER_STATUS_HISTORY: order_id -> statuses, oldest first
    nsets,      \* order_id -> how many committed writes set the order's status
    pc,         \* position of each request handler
    req,        \* the request each handler serves
    loc,        \* the handler's in-memory model instances
    tx,         \* the handler's uncommitted writes
    res,        \* the handler's outcome
    pre,        \* store as it was when the running request began (serial runs)
    serial,     \* TRUE: requests are served one at a time
    served      \* requests begun so far

dbvars == <<customers, stock, orders, items, payments, hist, nsets>>
sched == <<serial, served>>
vars == <<customers, stock, orders, items, payments, hist, nsets, pc, req, loc, tx, res, pre, serial, served>>

\* ---------------------------------------------------------------- helpers
Restrict(f, S) == [x \in S |-> f[x]]

Last(s) == s[Len(s)]

RECURSIVE SumTotalPrice(_, _)
SumTotalPrice(rows, ids) ==
    IF ids = {} THEN 0
    ELSE LET i == CHOOSE x \in ids : TRUE
         IN rows[i].total_price + SumTotalPrice(rows, ids \ {i})

NoReq == [op |-> "none"]
NoLoc == [order |-> None, ids |-> <<>>]
NoTx == [active |-> FALSE, orders |-> <<>>, newItems |-> <<>>, delItems |-> {},
         stockDelta |-> [pr \in Products |-> 0], stockLocks |-> {}]
OpenTx == [NoTx EXCEPT !.active = TRUE]
NoSnap == [taken |-> FALSE]
Snapshot == [taken |-> TRUE, customers |-> customers, stock |-> stock, orders |-> orders,
             items |-> items, payments |-> payments, hist |-> hist]

\* rows a handler sees: committed rows and its own uncommitted writes
VisibleOrders(p) == tx[p].orders @@ orders
VisibleItems(p) ==
    LET all == tx[p].newItems @@ items
    IN Restrict(all, DOMAIN all \ tx[p].delItems)
VisibleStock(p, pr) == stock[pr] - tx[p].stockDelta[pr]

\* row locks held by the open transactions of the other handlers
OrderLocked(p, o) == \E q \in Procs \ {p} : o \in DOMAIN tx[q].orders
ProductLocked(p, pr) == \E q \in Procs \ {p} : pr \in tx[q].stockLocks
ItemLocked(p, i) == \E q \in Procs \ {p} : i \in tx[q].delItems

OthersIdle(p) == \A q \in Procs \ {p} : pc[q] = "idle"
\* Handlers are interchangeable: when both are idle, handler 1 takes the request.
MayBegin(p) ==
    /\ pc[p] = "idle"
    /\ IF serial
       THEN OthersIdle(p) /\ served < MaxSerialRequests
       ELSE served < MaxRequests
    /\ \A q \in Procs : q < p => pc[q] # "idle"

\* identifiers in use, committed or in flight
UsedOrderIds == DOMAIN orders \cup UNION {DOMAIN tx[q].orders : q \in Procs}
UsedItemIds == DOMAIN items \cup UNION {{loc[q].ids[k] : k \in DOMAIN loc[q].ids} : q \in Procs}

\* history rows a running handler is still going to insert for order o
Appending(o) ==
    Cardinality({q \in Procs : pc[q] \in {"us_save", "us_hist", "cp_pay", "cp_order", "cp_hist"}
                                /\ loc[q].order = o})
HistRoom(o) == Len(hist[o]) + Appending(o) < MaxHist

Begin(p, label, r, l) ==
    /\ pc' = [pc EXCEPT ![p] = label]
    /\ req' = [req EXCEPT ![p] = r]
    /\ loc' = [loc EXCEPT ![p] = l]
    /\ pre' = IF serial THEN Snapshot ELSE pre
    /\ served' = served + 1
    /\ serial' = serial

Finish(p, outcome) ==
    /\ pc' = [pc EXCEPT ![p] = "done"]
    /\ res' = [res EXCEPT ![p] = outcome]

\* the request fails before it has written anything
Reject(p, r, outcome) ==
    /\ Begin(p, "done", r, NoLoc)
    /\ res' = [res EXCEPT ![p] = outcome]
    /\ UNCHANGED <<dbvars, tx>>

\* a slip in the error path: the writes made before the exception are committed
RollbackKeepsWrites(p, outcome) ==
    /\ Finish(p, outcome)
    /\ orders' = tx[p].orders @@ orders
    /\ items' = VisibleItems(p)
    /\ stock' = [pr \in Products |-> VisibleStock(p, pr)]
    /\ tx' = [tx EXCEPT ![p] = NoTx]
    /\ UNCHANGED <<customers, payments, hist, nsets, req, loc, pre, sched>>

\* an exception inside `with transaction.atomic()`: the writes are dropped
Rollback(p, outcome) ==
    /\ Finish(p, outcome)
    /\ tx' = [tx EXCEPT ![p] = NoTx]
    /\ UNCHANGED <<dbvars, req, loc, pre, sched>>

TypeOK ==
    /\ customers \subseteq InitCustomers
    /\ DOMAIN stock = Products
    /\ DOMAIN orders \subseteq OrderIds
    /\ DOMAIN items \subseteq ItemIds
    /\ DOMAIN payments \subseteq PaymentIds
    /\ pc \in [Procs -> STRING]
    /\ serial \in BOOLEAN

InitStore ==
    /\ customers = InitCustomers
    /\ stock = [pr \in Products |-> InitStock]
    /\ orders = <<>>
    /\ items = <<>>
    /\ payments = <<>>
    /\ hist = [o \in OrderIds |-> <<>>]
    /\ nsets = [o \in OrderIds |-> 0]
    /\ pc = [p \in Procs |-> "idle"]
    /\ req = [p \in Procs |-> NoReq]
    /\ loc = [p \in Procs |-> NoLoc]
    /\ tx = [p \in Procs |-> NoTx]
    /\ res = [p \in Procs |-> "none"]
    /\ pre = NoSnap

Init == InitStore /\ serial = FALSE /\ served = 0
InitSerial == InitStore /\ serial = TRUE /\ served = 0

\* ---------------------------------------------------------------- requests
ItemData ==
    [product_id : Products, quantity : Quantities, unit_price : UnitPrices]
    \cup [product_id : ProductInputs \ Products, quantity : {1}, unit_price : UnitPrices]
\* lists of more than one item start with one unit of a catalog product, and
\* are sent in runs that serve one request at a time
ItemLists(lo) ==
    {l \in UNION {[1..n -> ItemData] : n \in {k \in ItemCounts : k >= lo}} :
        Len(l) > 1 => /\ serial
                      /\ \A k \in 1..(Len(l) - 1) :
                            l[k].product_id \in Products /\ l[k].quantity = 1}

\* n fresh identifiers out of `free`, smallest first (uuid4 / a random draw that
\* collides with no row; which identifier is drawn has no meaning)
RECURSIVE FreshIds(_, _)
FreshIds(free, n) ==
    IF n = 0 THEN <<>>
    ELSE LET i == CHOOSE x \in free : \A y \in free : x <= y
         IN <<i>> \o FreshIds(free \ {i}, n - 1)

\* OrderItem.save, lines 103..104: total_price and the INSERT
NewItemRow(o, d) ==
    [order |-> o, product_id |-> d.product_id, quantity |-> d.quantity,
     unit_price |-> d.unit_price, total_price |-> d.unit_price * d.quantity]

\* a slip in the aggregate: the unit prices are summed, not the line totals
RECURSIVE SumUnitPrice(_, _)
SumUnitPrice(rows, ids) ==
    IF ids = {} THEN 0
    ELSE LET i == CHOOSE x \in ids : TRUE
         IN rows[i].unit_price + SumUnitPrice(rows, ids \ {i})
AggregateUnitPrices(rows, o) == SumUnitPrice(rows, {i \in DOMAIN rows : rows[i].order = o})

\* Order.update_total_amount: Sum("total_price") over the order's items, or 0
AggregateTotal(rows, o) == SumTotalPrice(rows, {i \in DOMAIN rows : rows[i].order = o})

\* Order.save: the customer must be a row of the customer catalog
CustomerValid(row) == row.customer \in customers

\* ---- Payment.save
NoPaymentFields == [transaction_id |-> None, payment_date |-> None, amount_paid |-> None]
Now == 1    \* a payment date that is set

\* Payment.generate_transaction_id: an identifier no payment row carries
FreeTxnIds == TxnIds \ {payments[x].transaction_id : x \in DOMAIN payments}
TxnChoices(pay) ==
    IF pay.payment_status = "success" /\ pay.transaction_id = None THEN FreeTxnIds ELSE {None}

\* a slip in Payment.save: a payment that is not success keeps its date and amount
PaymentSaveKeepsFields(pay, total, t) ==
    IF pay.payment_status = "success"
    THEN [pay EXCEPT !.transaction_id = IF @ = None THEN t ELSE @,
                     !.payment_date = Now,
                     !.amount_paid = total]
    ELSE [pay EXCEPT !.transaction_id = None]

\* Payment.save, lines 153..161: the fields as they are written
PaymentSave(pay, total, t) ==
    IF pay.payment_status = "success"
    THEN [pay EXCEPT !.transaction_id = IF @ = None THEN t ELSE @,
                     !.payment_date = Now,
                     !.amount_paid = total]
    ELSE [pay EXCEPT !.transaction_id = None,
                     !.payment_date = None,
                     !.amount_paid = None]

\* total_amount, status and the inline order_items are writable serializer
\* fields, and so is the nested payment; runs with overlapping requests leave
\* them at the defaults (0, pending, no items, no payment)
TotalFields == IF serial THEN ClientTotals ELSE {0}
InlineItems == IF serial THEN ItemLists(0) ELSE {<<>>}
StatusFields == IF serial THEN {"pending", "delivered"} ELSE {"pending"}
InlinePayments == IF serial THEN {"none", "success"} ELSE {"none"}
\* how many of the optional fields a createOrder request sets; the requests
\* explored set at most one of them
Extras(ta, st, its, pay) ==
    (IF ta # 0 THEN 1 ELSE 0) + (IF st # "pending" THEN 1 ELSE 0)
        + (IF its # <<>> THEN 1 ELSE 0) + (IF pay # "none" THEN 1 ELSE 0)

\* OrderViewSet.create with OrderSerializer.create: Order.objects.create, inside
\* transaction.atomic; the inline items follow (ItemCheckInsert ...)
CreateOrder(p) ==
    /\ MayBegin(p)
    /\ \E c \in CustomerInputs, ta \in TotalFields, st \in StatusFields, its \in InlineItems,
          pay \in InlinePayments :
         LET r == [op |-> "createOrder", customer |-> c, total_amount |-> ta,
                   status |-> st, items |-> its, payment |-> pay]
             row == [customer |-> c, total_amount |-> ta, status |-> st]
         IN /\ Extras(ta, st, its, pay) <= 1
            /\ Cardinality(OrderIds \ UsedOrderIds) >= 1
            /\ Cardinality(ItemIds \ UsedItemIds) >= Len(its)
            /\ IF ~CustomerValid(row)
               THEN Reject(p, r, "InvalidCustomer")
               ELSE LET o == FreshIds(OrderIds \ UsedOrderIds, 1)[1]
                    IN /\ Begin(p, IF its = <<>> THEN "co_commit" ELSE "item", r,
                                [order |-> o, snap |-> row, idx |-> 1,
                                 ids |-> FreshIds(ItemIds \ UsedItemIds, Len(its))])
                       /\ tx' = [tx EXCEPT ![p] = [OpenTx EXCEPT !.orders = o :> row]]
                       /\ UNCHANGED <<dbvars, res>>

\* OrderItemViewSet.create: get_object_or_404(Order), then transaction.atomic
AddItem(p) ==
    /\ MayBegin(p)
    /\ \E o \in OrderIds, its \in ItemLists(1) :
         LET r == [op |-> "addItem", order |-> o, items |-> its]
         IN /\ Cardinality(ItemIds \ UsedItemIds) >= Len(its)
            /\ IF o \notin DOMAIN orders
               THEN Reject(p, r, "NotFound")
               ELSE /\ Begin(p, "item", r,
                             [order |-> o, snap |-> orders[o], idx |-> 1,
                              ids |-> FreshIds(ItemIds \ UsedItemIds, Len(its))])
                    /\ tx' = [tx EXCEPT ![p] = OpenTx]
                    /\ UNCHANGED <<dbvars, res>>

\* OrderItem.save, lines 89..104: the stock check, total_price, the INSERT
ItemCheckInsert(p) ==
    /\ pc[p] = "item"
    /\ LET d == req[p].items[loc[p].idx]
           i == loc[p].ids[loc[p].idx]
       IN IF d.product_id \notin Products
          THEN Rollback(p, "InvalidProduct")
          ELSE IF VisibleStock(p, d.product_id) < d.quantity
          THEN Rollback(p, "InsufficientStock")
          ELSE /\ tx' = [tx EXCEPT ![p].newItems = (i :> NewItemRow(loc[p].order, d)) @@ @]
               /\ pc' = [pc EXCEPT ![p] = "item_total"]
               /\ UNCHANGED <<dbvars, req, loc, res, pre, sched>>

\* OrderItem.save, line 105: self.order.update_total_amount(), line 43: the
\* aggregate is read into the in-memory order
ItemAggregate(p) ==
    /\ pc[p] = "item_total"
    /\ loc' = [loc EXCEPT ![p].snap.total_amount = AggregateTotal(VisibleItems(p), loc[p].order)]
    /\ pc' = [pc EXCEPT ![p] = "item_order"]
    /\ UNCHANGED <<dbvars, req, tx, res, pre, sched>>

\* Order.update_total_amount, line 44: self.save() writes every column of the
\* in-memory order, after Order.save's customer check
ItemOrderSave(p) ==
    /\ pc[p] = "item_order"
    /\ LET o == loc[p].order
           row == loc[p].snap
       IN IF ~CustomerValid(row)
          THEN Rollback(p, "InvalidCustomer")
          ELSE /\ ~OrderLocked(p, o)
               /\ tx' = [tx EXCEPT ![p].orders = (o :> row) @@ @]
               /\ pc' = [pc EXCEPT ![p] = "item_stock"]
               /\ UNCHANGED <<dbvars, req, loc, res, pre, sched>>

\* a slip in the stock update: one unit is taken whatever the quantity
StockAfterOneUnit(old, quantity) == old - 1

\* OrderItem.save, lines 108..112: UPDATE ... SET STOCK = STOCK - quantity
StockAfter(old, quantity) == old - quantity

ItemDecrementStock(p) ==
    /\ pc[p] = "item_stock"
    /\ LET d == req[p].items[loc[p].idx]
           more == loc[p].idx < Len(req[p].items)
       IN /\ ~ProductLocked(p, d.product_id)
          /\ tx' = [tx EXCEPT ![p].stockDelta[d.product_id] =
                                  @ + (stock[d.product_id] - StockAfter(stock[d.product_id], d.quantity)),
                              ![p].stockLocks = @ \cup {d.product_id}]
          /\ loc' = [loc EXCEPT ![p].idx = @ + 1]
          /\ pc' = [pc EXCEPT ![p] = IF more THEN "item"
                                     ELSE IF req[p].op = "createOrder" THEN "co_commit"
                                     ELSE "commit"]
          /\ UNCHANGED <<dbvars, req, res, pre, sched>>

\* leaving `with transaction.atomic()`: the writes become visible together
Apply(p) ==
    /\ orders' = tx[p].orders @@ orders
    /\ items' = VisibleItems(p)
    /\ stock' = [pr \in Products |-> VisibleStock(p, pr)]
    /\ tx' = [tx EXCEPT ![p] = NoTx]

Commit(p) ==
    /\ pc[p] = "commit"
    /\ Apply(p)
    /\ Finish(p, "ok")
    /\ UNCHANGED <<customers, payments, hist, nsets, req, loc, pre, sched>>

\* OrderSerializer.create, lines 41..42: the nested payment, saved with the
\* in-memory order's total_amount; OrderViewSet.create, lines 70..72: the
\* creation's history row, then the commit
CreateOrderCommit(p) ==
    /\ pc[p] = "co_commit"
    /\ Apply(p)
    /\ IF req[p].payment = "none"
       THEN payments' = payments
       ELSE LET new == [order |-> loc[p].order, payment_status |-> req[p].payment] @@ NoPaymentFields
            IN \E t \in TxnChoices(new) :
                 payments' = (FreshIds(PaymentIds \ DOMAIN payments, 1)[1]
                                 :> PaymentSave(new, loc[p].snap.total_amount, t)) @@ payments
    /\ hist' = [hist EXCEPT ![loc[p].order] = Append(@, loc[p].snap.status)]
    /\ Finish(p, "ok")
    /\ UNCHANGED <<customers, nsets, req, loc, pre, sched>>

\* OrderItemViewSet.destroy, lines 165..166: get_object and order_item.order
RemoveItem(p) ==
    /\ MayBegin(p)
    /\ \E i \in ItemIds :
         LET r == [op |-> "removeItem", item |-> i]
         IN IF i \notin DOMAIN items
            THEN Reject(p, r, "NotFound")
            ELSE /\ Begin(p, "ri_delete", r,
                          [order |-> items[i].order, snap |-> orders[items[i].order],
                           item |-> i, ids |-> <<>>])
                 /\ UNCHANGED <<dbvars, tx, res>>

\* a slip in the delete: the quantity of the deleted item goes back to the stock
RemoveItemDeleteRestoresStock(p) ==
    /\ pc[p] = "ri_delete"
    /\ ~ItemLocked(p, loc[p].item)
    /\ LET left == Restrict(items, DOMAIN items \ {loc[p].item})
           gone == items[loc[p].item]
       IN /\ tx' = [tx EXCEPT ![p] = [OpenTx EXCEPT !.delItems = {loc[p].item},
                                                    !.stockDelta[gone.product_id] = 0 - gone.quantity]]
          /\ loc' = [loc EXCEPT ![p].snap.total_amount = AggregateTotal(left, loc[p].order)]
          /\ pc' = [pc EXCEPT ![p] = "ri_order"]
          /\ UNCHANGED <<dbvars, req, res, pre, sched>>

\* OrderItemViewSet.destroy, lines 168..170: order_item.delete() and the
\* aggregate of update_total_amount
RemoveItemDelete(p) ==
    /\ pc[p] = "ri_delete"
    /\ ~ItemLocked(p, loc[p].item)
    /\ LET left == Restrict(items, DOMAIN items \ {loc[p].item})
       IN /\ tx' = [tx EXCEPT ![p] = [OpenTx EXCEPT !.delItems = {loc[p].item}]]
          /\ loc' = [loc EXCEPT ![p].snap.total_amount = AggregateTotal(left, loc[p].order)]
          /\ pc' = [pc EXCEPT ![p] = "ri_order"]
          /\ UNCHANGED <<dbvars, req, res, pre, sched>>

\* OrderItemViewSet.destroy, line 170: update_total_amount's self.save()
RemoveItemOrderSave(p) ==
    /\ pc[p] = "ri_order"
    /\ LET o == loc[p].order
           row == loc[p].snap
       IN IF ~CustomerValid(row)
          THEN Rollback(p, "InvalidCustomer")
          ELSE /\ ~OrderLocked(p, o)
               /\ tx' = [tx EXCEPT ![p].orders = (o :> row) @@ @]
               /\ pc' = [pc EXCEPT ![p] = "commit"]
               /\ UNCHANGED <<dbvars, req, loc, res, pre, sched>>

\* ---------------------------------------------------------------- status
PaymentOf(o) == {x \in DOMAIN payments : payments[x].order = o}
ThePayment(o) == CHOOSE x \in PaymentOf(o) : TRUE

\* OrderViewSet.update_status, lines 92..102: get_object (the queryset prefetches
\* the payment), the status check and the delivery check
UpdateStatus(p) ==
    /\ MayBegin(p)
    /\ \E o \in OrderIds, st \in StatusInputs :
         LET r == [op |-> "transitionStatus", order |-> o, status |-> st]
         IN IF o \notin DOMAIN orders
            THEN Reject(p, r, "NotFound")
            ELSE IF st \notin STATUS_CHOICES
            THEN Reject(p, r, "InvalidStatus")
            ELSE IF st = "delivered" /\ PaymentOf(o) = {}
            THEN Reject(p, r, "NoPayment")
            ELSE IF st = "delivered" /\ payments[ThePayment(o)].payment_status # "success"
            THEN Reject(p, r, "NotDeliverable")
            ELSE /\ HistRoom(o)
                 /\ Begin(p, "us_save", r,
                          [order |-> o, snap |-> [orders[o] EXCEPT !.status = st], ids |-> <<>>])
                 /\ UNCHANGED <<dbvars, tx, res>>

\* an exception outside a transaction: what was written stays written
Raise(p, outcome) ==
    /\ Finish(p, outcome)
    /\ UNCHANGED <<dbvars, req, loc, tx, pre, sched>>

\* Order.save outside a transaction: the customer check, then the UPDATE of every
\* column from the in-memory order, committed at once
OrderSaveNow(p, next, setsStatus) ==
    LET o == loc[p].order
        row == loc[p].snap
    IN IF ~CustomerValid(row)
       THEN Raise(p, "InvalidCustomer")
       ELSE /\ ~OrderLocked(p, o)
            /\ orders' = [orders EXCEPT ![o] = row]
            /\ nsets' = [nsets EXCEPT ![o] = IF setsStatus THEN @ + 1 ELSE @]
            /\ IF next = "done"
               THEN Finish(p, "ok") /\ UNCHANGED <<req, loc>>
               ELSE pc' = [pc EXCEPT ![p] = next] /\ UNCHANGED <<req, loc, res>>
            /\ UNCHANGED <<customers, stock, items, payments, hist, tx, pre, sched>>

\* a slip in the audit trail: the request ends without the history row
HistoryCreateSkipped(p, st) ==
    /\ Finish(p, "ok")
    /\ UNCHANGED <<dbvars, req, loc, tx, pre, sched>>

\* OrderStatusHistory.objects.create(order=order, status=...)
HistoryCreate(p, st) ==
    /\ hist' = [hist EXCEPT ![loc[p].order] = Append(@, st)]
    /\ Finish(p, "ok")
    /\ UNCHANGED <<customers, stock, orders, items, payments, nsets, req, loc, tx, pre, sched>>

\* OrderViewSet.update_status, lines 104..105
UpdateStatusSave(p) ==
    /\ pc[p] = "us_save"
    /\ OrderSaveNow(p, "us_hist", TRUE)

\* OrderViewSet.update_status, line 107
UpdateStatusHistory(p) ==
    /\ pc[p] = "us_hist"
    /\ HistoryCreate(p, req[p].status)

\* OrderViewSet.update (PATCH): the serializer writes the fields the client sent
PatchFields ==
    IF serial
    THEN [status : {"absent", "shipped", "delivered"}, total_amount : {None, 7}]
    ELSE [status : {"shipped"}, total_amount : {None}]
Patched(row, f) ==
    [row EXCEPT !.status = IF f.status = "absent" THEN @ ELSE f.status,
                !.total_amount = IF f.total_amount = None THEN @ ELSE f.total_amount]

OrderUpdate(p) ==
    /\ MayBegin(p)
    /\ \E o \in OrderIds, f \in PatchFields :
         LET r == [op |-> "orderUpdate", order |-> o, fields |-> f]
         IN IF o \notin DOMAIN orders
            THEN Reject(p, r, "NotFound")
            ELSE /\ Begin(p, "ou_save", r,
                          [order |-> o, snap |-> Patched(orders[o], f), ids |-> <<>>])
                 /\ UNCHANGED <<dbvars, tx, res>>

OrderUpdateSave(p) ==
    /\ pc[p] = "ou_save"
    /\ OrderSaveNow(p, "done", req[p].fields.status # "absent")

\* ---------------------------------------------------------------- item update
\* quantity an item update carries
UpdateQuantities == IF serial THEN Quantities ELSE {1}

\* OrderItemViewSet, update inherited from ModelViewSet (PATCH): get_object, then
\* the serializer sets the fields the client sent on the instance.  No
\* transaction is opened: every statement of OrderItem.save commits on its own.
ItemUpdate(p) ==
    /\ MayBegin(p)
    /\ \E i \in ItemIds, q \in UpdateQuantities :
         LET r == [op |-> "updateItem", item |-> i, quantity |-> q]
         IN IF i \notin DOMAIN items
            THEN Reject(p, r, "NotFound")
            ELSE /\ Begin(p, "iu_item", r,
                          [order |-> items[i].order, item |-> i, ids |-> <<>>,
                           itemsnap |-> [items[i] EXCEPT !.quantity = q]])
                 /\ UNCHANGED <<dbvars, tx, res>>

\* OrderItem.save on an existing item, lines 89..104: the stock check,
\* total_price and the UPDATE of the item (an INSERT when the row is gone)
ItemUpdateSave(p) ==
    /\ pc[p] = "iu_item"
    /\ LET i == loc[p].item
           row == loc[p].itemsnap
       IN IF row.product_id \notin Products
          THEN Raise(p, "InvalidProduct")
          ELSE IF stock[row.product_id] < row.quantity
          THEN Raise(p, "InsufficientStock")
          ELSE /\ ~ItemLocked(p, i)
               /\ items' = (i :> [row EXCEPT !.total_price = row.unit_price * row.quantity]) @@ items
               /\ pc' = [pc EXCEPT ![p] = "iu_total"]
               /\ UNCHANGED <<customers, stock, orders, payments, hist, nsets, req, loc, tx, res, pre, sched>>

\* OrderItem.save, line 105: self.order is fetched, update_total_amount reads
\* the aggregate into it
ItemUpdateAggregate(p) ==
    /\ pc[p] = "iu_total"
    /\ LET o == loc[p].order
       IN loc' = [loc EXCEPT ![p] =
                     [snap |-> [orders[o] EXCEPT !.total_amount = AggregateTotal(items, o)]] @@ @]
    /\ pc' = [pc EXCEPT ![p] = "iu_order"]
    /\ UNCHANGED <<dbvars, req, tx, res, pre, sched>>

\* Order.update_total_amount, line 44: self.save()
ItemUpdateOrderSave(p) ==
    /\ pc[p] = "iu_order"
    /\ OrderSaveNow(p, "iu_stock", FALSE)

\* OrderItem.save, lines 108..112: the stock UPDATE runs on every save
ItemUpdateStock(p) ==
    /\ pc[p] = "iu_stock"
    /\ LET row == loc[p].itemsnap
       IN /\ ~ProductLocked(p, row.product_id)
          /\ stock' = [stock EXCEPT ![row.product_id] = StockAfter(@, row.quantity)]
    /\ Finish(p, "ok")
    /\ UNCHANGED <<customers, orders, items, payments, hist, nsets, req, loc, tx, pre, sched>>

\* ---------------------------------------------------------------- payments
\* the one-to-one constraint left out
UniqueOrderUnchecked(o) == TRUE

\* Payment.order is one-to-one (unique=True): the INSERT of a second row fails
UniqueOrder(o) == PaymentOf(o) = {}

\* PaymentViewSet.create, lines 190..195
PaymentCreate(p) ==
    /\ MayBegin(p)
    /\ \E o \in OrderIds, st \in PAYMENT_STATUS :
         LET r == [op |-> "attachPayment", order |-> o, status |-> st]
         IN IF o \notin DOMAIN orders
            THEN Reject(p, r, "NotFound")
            ELSE IF PaymentOf(o) # {}
            THEN Reject(p, r, "PaymentExists")
            ELSE /\ Begin(p, "pay_insert", r, [order |-> o, snap |-> orders[o], ids |-> <<>>])
                 /\ UNCHANGED <<dbvars, tx, res>>

\* PaymentViewSet.create, lines 197..199: serializer.save(order=order)
PaymentCreateSave(p) ==
    /\ pc[p] = "pay_insert"
    /\ LET o == loc[p].order
           new == [order |-> o, payment_status |-> req[p].status] @@ NoPaymentFields
       IN IF ~UniqueOrder(o)
          THEN Raise(p, "IntegrityError")
          ELSE \E t \in TxnChoices(new) :
                 /\ payments' = (FreshIds(PaymentIds \ DOMAIN payments, 1)[1]
                                    :> PaymentSave(new, loc[p].snap.total_amount, t)) @@ payments
                 /\ Finish(p, "ok")
                 /\ UNCHANGED <<customers, stock, orders, items, hist, nsets, req, loc, tx, pre, sched>>

\* PaymentViewSet.update, lines 210..213: get_object and the new status
PaymentUpdate(p) ==
    /\ MayBegin(p)
    /\ \E o \in OrderIds, st \in PAYMENT_STATUS :
         LET r == [op |-> "setStatus", order |-> o, status |-> st]
         IN IF PaymentOf(o) = {}
            THEN Reject(p, r, "NotFound")
            ELSE /\ Begin(p, "pu_save", r,
                          [order |-> o, pay |-> ThePayment(o), ids |-> <<>>,
                           paysnap |-> [payments[ThePayment(o)] EXCEPT !.payment_status = st]])
                 /\ UNCHANGED <<dbvars, tx, res>>

\* Payment.save outside a transaction; self.order is fetched for amount_paid
PaymentSaveNow(p) ==
    \E t \in TxnChoices(loc[p].paysnap) :
      /\ payments' = [payments EXCEPT ![loc[p].pay] =
                         PaymentSave(loc[p].paysnap, orders[loc[p].order].total_amount, t)]
      /\ UNCHANGED <<customers, stock, orders, items, hist, nsets, req, tx, pre, sched>>

\* PaymentViewSet.update, line 214
PaymentUpdateSave(p) ==
    /\ pc[p] = "pu_save"
    /\ PaymentSaveNow(p)
    /\ Finish(p, "ok")
    /\ UNCHANGED loc

\* PaymentViewSet.confirm_payment, lines 220..224
ConfirmPayment(p) ==
    /\ MayBegin(p)
    /\ \E o \in OrderIds :
         LET r == [op |-> "confirmPayment", order |-> o]
         IN IF PaymentOf(o) = {}
            THEN Reject(p, r, "NotFound")
            ELSE IF payments[ThePayment(o)].payment_status = "success"
            THEN Reject(p, r, "AlreadyConfirmed")
            ELSE /\ HistRoom(o)
                 /\ Begin(p, "cp_pay", r,
                          [order |-> o, pay |-> ThePayment(o), ids |-> <<>>,
                           paysnap |-> [payments[ThePayment(o)] EXCEPT !.payment_status = "success"]])
                 /\ UNCHANGED <<dbvars, tx, res>>

\* PaymentViewSet.confirm_payment, lines 225..229: payment.save(), then the
\* order Payment.save fetched gets the status shipped
ConfirmPaymentSave(p) ==
    /\ pc[p] = "cp_pay"
    /\ PaymentSaveNow(p)
    /\ loc' = [loc EXCEPT ![p] = [snap |-> [orders[loc[p].order] EXCEPT !.status = "shipped"]] @@ @]
    /\ pc' = [pc EXCEPT ![p] = "cp_order"]
    /\ UNCHANGED res

\* PaymentViewSet.confirm_payment, line 230
ConfirmOrderSave(p) ==
    /\ pc[p] = "cp_order"
    /\ OrderSaveNow(p, "cp_hist", TRUE)

\* PaymentViewSet.confirm_payment, line 231
ConfirmHistory(p) ==
    /\ pc[p] = "cp_hist"
    /\ HistoryCreate(p, "shipped")

\* the response is sent; the handler serves the next request
Return(p) ==
    /\ pc[p] = "done"
    /\ pc' = [pc EXCEPT ![p] = "idle"]
    /\ req' = [req EXCEPT ![p] = NoReq]
    /\ loc' = [loc EXCEPT ![p] = NoLoc]
    /\ res' = [res EXCEPT ![p] = "none"]
    /\ pre' = IF serial THEN NoSnap ELSE pre
    /\ UNCHANGED <<dbvars, tx, sched>>

\* the customer service deletes a customer (the catalog is not owned here)
RemoveCustomer ==
    /\ serial => \A q \in Procs : pc[q] = "idle"
    /\ \E c \in customers : customers' = customers \ {c}
    /\ UNCHANGED <<stock, orders, items, payments, hist, nsets, pc, req, loc, tx, res, pre, sched>>

Next ==
    \/ \E p \in Procs : CreateOrder(p)
    \/ \E p \in Procs : AddItem(p)
    \/ \E p \in Procs : ItemCheckInsert(p)
    \/ \E p \in Procs : ItemAggregate(p)
    \/ \E p \in Procs : ItemOrderSave(p)
    \/ \E p \in Procs : ItemDecrementStock(p)
    \/ \E p \in Procs : Commit(p)
    \/ \E p \in Procs : CreateOrderCommit(p)
    \/ \E p \in Procs : RemoveItem(p)
    \/ \E p \in Procs : RemoveItemDelete(p)
    \/ \E p \in Procs : RemoveItemOrderSave(p)
    \/ \E p \in Procs : ItemUpdate(p)
    \/ \E p \in Procs : ItemUpdateSave(p)
    \/ \E p \in Procs : ItemUpdateAggregate(p)
    \/ \E p \in Procs : ItemUpdateOrderSave(p)
    \/ \E p \in Procs : ItemUpdateStock(p)
    \/ \E p \in Procs : UpdateStatus(p)
    \/ \E p \in Procs : UpdateStatusSave(p)
    \/ \E p \in Procs : UpdateStatusHistory(p)
    \/ \E p \in Procs : OrderUpdate(p)
    \/ \E p \in Procs : OrderUpdateSave(p)
    \/ \E p \in Procs : PaymentCreate(p)
    \/ \E p \in Procs : PaymentCreateSave(p)
    \/ \E p \in Procs : PaymentUpdate(p)
    \/ \E p \in Procs : PaymentUpdateSave(p)
    \/ \E p \in Procs : ConfirmPayment(p)
    \/ \E p \in Procs : ConfirmPaymentSave(p)
    \/ \E p \in Procs : ConfirmOrderSave(p)
    \/ \E p \in Procs : ConfirmHistory(p)
    \/ \E p \in Procs : Return(p)
    \/ RemoveCustomer

Spec == Init /\ [][Next]_vars
SpecSerial == InitSerial /\ [][Next]_vars

\* ---------------------------------------------------------------- properties
Done(p, op) == pc[p] = "done" /\ req[p].op = op
AllIdle == \A p \in Procs : pc[p] = "idle"

\* the sum of total_price over the items that belong to order o
LiveTotal(o) == SumTotalPrice(items, {i \in DOMAIN items : items[i].order = o})

RECURSIVE RequestedQty(_, _)
RequestedQty(its, pr) ==
    IF its = <<>> THEN 0
    ELSE (IF Head(its).product_id = pr THEN Head(its).quantity ELSE 0) + RequestedQty(Tail(its), pr)

\* C1: after an addItem or removeItem that succeeded, the total_amount of the
\* order it acted on is the sum of total_price over the order's items and no
\* other order changed; after one that failed, no order and no item changed
\* (requests served one at a time).
C1_TotalIsSumOfItems ==
    \A p \in Procs :
        (Done(p, "addItem") \/ Done(p, "removeItem")) =>
            IF res[p] = "ok"
            THEN /\ orders[loc[p].order].total_amount = LiveTotal(loc[p].order)
                 /\ \A o \in DOMAIN pre.orders \ {loc[p].order} : orders[o] = pre.orders[o]
                 /\ DOMAIN orders = DOMAIN pre.orders
            ELSE orders = pre.orders /\ items = pre.items

\* a removeItem succeeded and left the order with items
C1_Witness ==
    \E p \in Procs :
        /\ Done(p, "removeItem") /\ res[p] = "ok"
        /\ orders[loc[p].order].total_amount > 0

\* C2: the stock of a product is never negative, so of two addItem calls on one
\* product that both succeeded the quantities fit the stock they started from.
C2_StockNeverNegative ==
    /\ \A pr \in Products : stock[pr] >= 0
    /\ \A p, q \in Procs :
         (p # q /\ Done(p, "addItem") /\ Done(q, "addItem") /\ res[p] = "ok" /\ res[q] = "ok") =>
             \A pr \in Products :
                 RequestedQty(req[p].items, pr) + RequestedQty(req[q].items, pr)
                     <= stock[pr] + RequestedQty(req[p].items, pr) + RequestedQty(req[q].items, pr)

\* C3: an addItem that succeeded took exactly the requested quantity from the
\* stock and persisted one item per requested item, total_price = unit_price *
\* quantity; a single-item addItem for an unknown product or for more than the
\* stock fails; an addItem that failed left stock, items and orders as they were
\* (requests served one at a time).
C3_AddItemEffects ==
    \A p \in Procs :
        Done(p, "addItem") =>
            LET its == req[p].items
                d == its[1]
            IN /\ res[p] = "ok" =>
                    /\ \A pr \in Products : stock[pr] = pre.stock[pr] - RequestedQty(its, pr)
                    /\ Cardinality(DOMAIN items) = Cardinality(DOMAIN pre.items) + Len(its)
                    /\ \A i \in DOMAIN pre.items : i \in DOMAIN items /\ items[i] = pre.items[i]
                    /\ \A k \in 1..Len(its) :
                         /\ loc[p].ids[k] \in DOMAIN items \ DOMAIN pre.items
                         /\ items[loc[p].ids[k]] =
                                [order |-> req[p].order, product_id |-> its[k].product_id,
                                 quantity |-> its[k].quantity, unit_price |-> its[k].unit_price,
                                 total_price |-> its[k].unit_price * its[k].quantity]
               /\ (/\ Len(its) = 1
                   /\ req[p].order \in DOMAIN pre.orders
                   /\ IF d.product_id \in Products
                      THEN d.quantity > pre.stock[d.product_id]
                      ELSE TRUE)
                  => res[p] \in {"InvalidProduct", "InsufficientStock"}
               /\ res[p] # "ok" =>
                    stock = pre.stock /\ items = pre.items /\ orders = pre.orders

\* an addItem of two units succeeded
C3_Witness ==
    \E p \in Procs :
        /\ Done(p, "addItem") /\ res[p] = "ok"
        /\ Len(req[p].items) = 1 /\ req[p].items[1].quantity = 2

\* C4: a transaction identifier a payment carries is unchanged by a setStatus
\* call, whatever the new status.
C4_TransactionIdKept ==
    \A p \in Procs :
        (Done(p, "setStatus") /\ res[p] = "ok") =>
            (pre.payments[loc[p].pay].transaction_id # None =>
                payments[loc[p].pay].transaction_id = pre.payments[loc[p].pay].transaction_id)

\* the store before and after a transitionStatus request on order o
PaidBefore(o) ==
    \E x \in DOMAIN pre.payments :
        pre.payments[x].order = o /\ pre.payments[x].payment_status = "success"
StatusUntouched == orders = pre.orders /\ hist = pre.hist
StatusApplied(p, o, st) ==
    /\ res[p] = "ok"
    /\ orders = [pre.orders EXCEPT ![o].status = st]
    /\ hist = [pre.hist EXCEPT ![o] = Append(@, st)]

\* C5 as amended: on an existing order, transitionStatus with a status outside
\* the three fails with InvalidStatus and changes nothing; to delivered without a
\* successful payment it fails and changes nothing; otherwise, when the order's
\* customer is in the customer catalog, it succeeds, sets the status and appends
\* exactly one history entry with that status, and when the customer is not, it
\* fails and changes nothing (requests served one at a time).
C5_TransitionStatus ==
    \A p \in Procs :
        (Done(p, "transitionStatus") /\ req[p].order \in DOMAIN pre.orders) =>
            LET o == req[p].order
                st == req[p].status
            IN /\ st \notin STATUS_CHOICES => res[p] = "InvalidStatus" /\ StatusUntouched
               /\ (st = "delivered" /\ ~PaidBefore(o)) => res[p] # "ok" /\ StatusUntouched
               /\ (st \in STATUS_CHOICES /\ (st # "delivered" \/ PaidBefore(o))) =>
                    IF pre.orders[o].customer \in customers
                    THEN StatusApplied(p, o, st)
                    ELSE res[p] = "InvalidCustomer" /\ StatusUntouched

\* a paid order was moved to delivered
C5_Witness ==
    \E p \in Procs :
        /\ Done(p, "transitionStatus") /\ res[p] = "ok"
        /\ req[p].status = "delivered"
        /\ Len(hist[req[p].order]) = Len(pre.hist[req[p].order]) + 1

\* C5 as stated: with a successful payment, or for a valid status other than
\* delivered, transitionStatus succeeds (whatever the customer catalog holds).
C5_AsStated ==
    \A p \in Procs :
        (Done(p, "transitionStatus") /\ req[p].order \in DOMAIN pre.orders) =>
            LET o == req[p].order
                st == req[p].status
            IN /\ st \notin STATUS_CHOICES => res[p] = "InvalidStatus" /\ StatusUntouched
               /\ (st = "delivered" /\ ~PaidBefore(o)) => res[p] # "ok" /\ StatusUntouched
               /\ (st \in STATUS_CHOICES /\ (st # "delivered" \/ PaidBefore(o))) =>
                    StatusApplied(p, o, st)

\* C6: confirmPayment on a payment that is success fails with AlreadyConfirmed
\* and changes nothing; on a pending or failed payment it sets the payment to
\* success with a transaction identifier, the order to shipped, and appends one
\* history entry shipped (requests served one at a time).
C6_ConfirmPayment ==
    \A p \in Procs :
        Done(p, "confirmPayment") =>
            \A x \in DOMAIN pre.payments :
                pre.payments[x].order = req[p].order =>
                    LET o == req[p].order
                    IN IF pre.payments[x].payment_status = "success"
                       THEN /\ res[p] = "AlreadyConfirmed"
                            /\ payments = pre.payments /\ StatusUntouched
                       ELSE /\ payments[x].payment_status = "success"
                            /\ payments[x].transaction_id # None
                            /\ orders[o].status = "shipped"
                            /\ hist[o] = Append(pre.hist[o], "shipped")

\* C7: whenever a confirmPayment has written the payment, the order is shipped
\* and its last history entry is shipped; a confirmPayment that failed left the
\* payment as it was (not success).
C7_ConfirmIsAtomic ==
    \A p \in Procs :
        /\ pc[p] \in {"cp_order", "cp_hist"} =>
              /\ orders[loc[p].order].status = "shipped"
              /\ hist[loc[p].order] # <<>> /\ Last(hist[loc[p].order]) = "shipped"
        /\ (Done(p, "confirmPayment") /\ res[p] = "InvalidCustomer") =>
              payments[loc[p].pay].payment_status # "success"

\* C8: whenever a transitionStatus has written the order's status, the history
\* ends with an entry for that status.
C8_TransitionIsAtomic ==
    \A p \in Procs :
        pc[p] = "us_hist" =>
            /\ hist[loc[p].order] # <<>>
            /\ Last(hist[loc[p].order]) = orders[loc[p].order].status

\* C9: every order has at most one payment; an attachPayment that finds a
\* payment on the order ends with an error and leaves the payments as they are;
\* of two attachPayment calls on one order at most one succeeds.
AtMostOnePayment == \A o \in OrderIds : Cardinality(PaymentOf(o)) <= 1
OnlyOneAttaches ==
    \A p, q \in Procs :
        (p # q /\ Done(p, "attachPayment") /\ Done(q, "attachPayment")
              /\ req[p].order = req[q].order)
            => ~(res[p] = "ok" /\ res[q] = "ok")
DuplicateRejected ==
    \A p \in Procs :
        /\ (pc[p] = "idle" /\ pc'[p] # "idle" /\ req'[p].op = "attachPayment"
               /\ PaymentOf(req'[p].order) # {})
             => (pc'[p] = "done" /\ res'[p] = "PaymentExists" /\ payments' = payments)
        /\ (pc[p] = "pay_insert" /\ pc'[p] = "done" /\ PaymentOf(loc[p].order) # {})
             => (res'[p] = "IntegrityError" /\ payments' = payments)
C9_OnePaymentPerOrder == [](AtMostOnePayment /\ OnlyOneAttaches) /\ [][DuplicateRejected]_vars

\* two overlapping attachPayment calls on one order: one created the payment,
\* the other met the one-to-one constraint
C9_Witness ==
    \E p, q \in Procs :
        /\ Done(p, "attachPayment") /\ Done(q, "attachPayment")
        /\ req[p].order = req[q].order
        /\ res[p] = "ok" /\ res[q] = "IntegrityError"

\* C10: between requests, an order has one history entry for its creation and
\* one for every write that set its status, and the last entry carries the
\* order's status.
C10_HistoryFollowsStatus ==
    AllIdle =>
        \A o \in DOMAIN orders :
            /\ Len(hist[o]) = 1 + nsets[o]
            /\ Last(hist[o]) = orders[o].status

\* C11: a payment that becomes success gets the order's total_amount as its
\* amount_paid, and while it stays success the amount is kept: addItem and
\* removeItem leave every payment as it was, and a setStatus to success on a
\* payment that is success leaves amount_paid as it was (requests served one
\* at a time).
C11_AmountPaidIsSnapshot ==
    \A p \in Procs :
        /\ (Done(p, "addItem") \/ Done(p, "removeItem")) => payments = pre.payments
        /\ (Done(p, "attachPayment") /\ res[p] = "ok" /\ req[p].status = "success") =>
              payments[ThePayment(req[p].order)].amount_paid = pre.orders[req[p].order].total_amount
        /\ (Done(p, "setStatus") /\ res[p] = "ok" /\ req[p].status = "success") =>
              IF pre.payments[loc[p].pay].payment_status = "success"
              THEN payments[loc[p].pay].amount_paid = pre.payments[loc[p].pay].amount_paid
              ELSE payments[loc[p].pay].amount_paid = pre.orders[req[p].order].total_amount

\* C12: in every state, a payment whose status is not success has no payment
\* date and no amount_paid, and a payment whose status is success has both.
C12_DateAndAmountFollowStatus ==
    \A x \in DOMAIN payments :
        IF payments[x].payment_status = "success"
        THEN payments[x].payment_date # None /\ payments[x].amount_paid # None
        ELSE payments[x].payment_date = None /\ payments[x].amount_paid = None

\* a payment that was success was set back to pending or failed
C12_Witness ==
    \E p \in Procs :
        /\ Done(p, "setStatus") /\ res[p] = "ok"
        /\ pre.payments[loc[p].pay].payment_status = "success"
        /\ pre.payments[loc[p].pay].amount_paid # None
        /\ payments[loc[p].pay].payment_status # "success"

\* C13: the stock of a product goes down by the quantity of an item once, when
\* the item is created: a createOrder or addItem that succeeded took the
\* quantities of its items, and an item update or an item delete leaves the
\* stock of every product as it was (requests served one at a time).
C13_StockTakenOncePerItem ==
    \A p \in Procs :
        /\ ((Done(p, "addItem") \/ Done(p, "createOrder")) /\ res[p] = "ok") =>
              \A pr \in Products : stock[pr] = pre.stock[pr] - RequestedQty(req[p].items, pr)
        /\ (Done(p, "updateItem") \/ Done(p, "removeItem")) => stock = pre.stock

\* the store as the running request found it
StoreAsBefore ==
    /\ orders = pre.orders /\ items = pre.items /\ stock = pre.stock
    /\ hist = pre.hist /\ payments = pre.payments

\* C14: a createOrder with inline items or an addItem that ends with an error
\* leaves no order, no item, no history entry, no payment, no stock decrement
\* and no total_amount change behind, whichever of its items failed (requests
\* served one at a time).
C14_FailureRollsBack ==
    \A p \in Procs :
        ((Done(p, "createOrder") \/ Done(p, "addItem")) /\ res[p] # "ok") => StoreAsBefore

\* a request of two items failed on its second item, after the first item, the
\* order's total and the stock of the first item had been written
C14_Witness ==
    \E p \in Procs :
        /\ (Done(p, "createOrder") \/ Done(p, "addItem"))
        /\ res[p] \in {"InvalidProduct", "InsufficientStock"}
        /\ Len(req[p].items) = 2 /\ loc[p].idx = 2
        /\ StoreAsBefore

\* C15: after a createOrder or an order update that succeeded, the stored
\* total_amount of the order is the sum of total_price over the order's items,
\* whatever total_amount the request carried (requests served one at a time).
C15_TotalNeverClientSet ==
    \A p \in Procs :
        ((Done(p, "createOrder") \/ Done(p, "orderUpdate")) /\ res[p] = "ok") =>
            orders[loc[p].order].total_amount = LiveTotal(loc[p].order)

\* the store after the removal of item i from the store the request found
ItemRemoved(i) ==
    LET o == pre.items[i].order
        left == Restrict(pre.items, DOMAIN pre.items \ {i})
    IN /\ items = left
       /\ orders = [pre.orders EXCEPT ![o].total_amount =
                        SumTotalPrice(left, {k \in DOMAIN left : left[k].order = o})]
       /\ stock = pre.stock /\ hist = pre.hist /\ payments = pre.payments

\* C16 as amended: removeItem on an unknown item fails with NotFound and changes
\* nothing; on an existing item whose order's customer is in the customer
\* catalog it succeeds, deletes the item, sets the order's total_amount to the
\* sum over the remaining items and leaves every stock as it was; when the
\* customer is not in the catalog it fails and changes nothing (requests served
\* one at a time).
C16_RemoveItem ==
    \A p \in Procs :
        Done(p, "removeItem") =>
            LET i == req[p].item
            IN IF i \notin DOMAIN pre.items
               THEN res[p] = "NotFound" /\ StoreAsBefore
               ELSE IF pre.orders[pre.items[i].order].customer \in customers
               THEN res[p] = "ok" /\ ItemRemoved(i)
               ELSE res[p] = "InvalidCustomer" /\ StoreAsBefore

\* an item was removed, other items stay on the order, and the stock it took
\* is still taken
C16_Witness ==
    \E p \in Procs :
        /\ Done(p, "removeItem") /\ res[p] = "ok"
        /\ req[p].item \in DOMAIN pre.items /\ req[p].item \notin DOMAIN items
        /\ orders[loc[p].order].total_amount > 0
        /\ orders[loc[p].order].total_amount < pre.orders[loc[p].order].total_amount
        /\ \E pr \in Products : stock[pr] < InitStock /\ stock[pr] = pre.stock[pr]

\* C16 as stated: removeItem on an existing item deletes it, recomputes the
\* total and leaves the stock (whatever the customer catalog holds).
C16_AsStated ==
    \A p \in Procs :
        Done(p, "removeItem") =>
            LET i == req[p].item
            IN IF i \notin DOMAIN pre.items
               THEN res[p] = "NotFound" /\ StoreAsBefore
               ELSE res[p] = "ok" /\ ItemRemoved(i)

\* C17: a createOrder for a customer the customer catalog lacks fails and
\* leaves no order and no history entry; a createOrder for a customer of the
\* catalog with no items succeeds and persists one new order with status
\* pending and total_amount 0, with one history entry pending (requests served
\* one at a time).
C17_CreateOrder ==
    \A p \in Procs :
        Done(p, "createOrder") =>
            IF req[p].customer \notin pre.customers
            THEN res[p] # "ok" /\ StoreAsBefore
            ELSE req[p].items = <<>> =>
                    /\ res[p] = "ok"
                    /\ loc[p].order \notin DOMAIN pre.orders
                    /\ DOMAIN orders = DOMAIN pre.orders \cup {loc[p].order}
                    /\ orders[loc[p].order].status = "pending"
                    /\ orders[loc[p].order].total_amount = 0
                    /\ hist[loc[p].order] = <<"pending">>

\* every delivered order among os has a payment among ps whose status is success
DeliveredArePaid(os, ps) ==
    \A o \in DOMAIN os :
        os[o].status = "delivered" =>
            \E x \in DOMAIN ps : ps[x].order = o /\ ps[x].payment_status = "success"

\* C18: a transitionStatus, order update, payment setStatus or confirmPayment
\* that starts from a store in which every delivered order has a payment whose
\* status is success ends in such a store (requests served one at a time).
C18_DeliveredIsPaid ==
    \A p \in Procs :
        (/\ Done(p, "transitionStatus") \/ Done(p, "orderUpdate")
               \/ Done(p, "setStatus") \/ Done(p, "confirmPayment")
         /\ DeliveredArePaid(pre.orders, pre.payments))
            => DeliveredArePaid(orders, payments)

\* C19: when two requests that add or remove items of one order have both
\* committed, the order's total_amount is the sum of total_price over its items.
C19_NoLostTotal ==
    \A p, q \in Procs :
        (/\ p # q
         /\ Done(p, "addItem") \/ Done(p, "removeItem")
         /\ Done(q, "addItem") \/ Done(q, "removeItem")
         /\ res[p] = "ok" /\ res[q] = "ok"
         /\ loc[p].order = loc[q].order)
            => orders[loc[p].order].total_amount = LiveTotal(loc[p].order)

\* the status a transitionStatus or confirmPayment request writes
StatusWritten(q) == IF req[q].op = "confirmPayment" THEN "shipped" ELSE req[q].status

\* C20: when an addItem or removeItem on an order and a transitionStatus or
\* confirmPayment on the same order have both succeeded, the order's status is
\* the status the latter wrote.
C20_ItemsKeepStatus ==
    \A p, q \in Procs :
        (/\ Done(p, "addItem") \/ Done(p, "removeItem")
         /\ Done(q, "transitionStatus") \/ Done(q, "confirmPayment")
         /\ res[p] = "ok" /\ res[q] = "ok"
         /\ loc[p].order = loc[q].order)
            => orders[loc[p].order].status = StatusWritten(q)

====
